---- MODULE Spec2Model ----
(***************************************************************************)
(* A model of kubconfig-cli's temporary-access session manager             *)
(* (config/serviceaccount.go) and of the two commands that drive it        *)
(* (cmd activate, cmd deactivate).                                         *)
(*                                                                         *)
(* One process is modelled: the foreground workers run command handlers    *)
(* and calls of the exported functions of package config, the sweeper is   *)
(* the goroutine started by StartCleanupRoutine.  The control plane        *)
(* (kubectl) is the set of service accounts and cluster role bindings it   *)
(* holds; every kubectl invocation may fail.  Time is in whole seconds.    *)
(***************************************************************************)
EXTENDS Integers, Sequences, FiniteSets, TLC

\* ------------------------------------------------------------------ bounds

\* the clock advances at most MaxTicks times
MaxTicks == 2
\* the workers start at most MaxCalls handlers and API calls in all
MaxCalls == 3
\* at most MaxFaults invocations of kubectl and writes of files fail
MaxFaults == 1

\* the amounts by which the clock advances in one step (seconds)
TickSteps == {600}

\* ---------------------------------------------------------------- universe

Users == {"alice", "bob"}
Workers == {"w1", "w2"}
Sweeper == "sweeper"
Threads == Workers \cup {Sweeper}

None == "none"
Nil == 0

\* fmt.Sprintf("%s-user", user): a name is the sequence of its pieces
SAName(user) == <<user, "-user">>
\* fmt.Sprintf("%s-admin", config.Name)
CRBName(name) == name \o <<"-admin">>

KubeSystem == "kube-system"

\* the User field of a ServiceAccountConfig that was never assigned one
NoUser == ""

\* a comparison that takes every time for later than any other
AlwaysAfter(t, u) == TRUE

\* time.Time.After
After(t, u) == t > u

VARIABLES
  now,                  \* time.Now(), seconds
  ticks,                \* how often the clock advanced
  configs,              \* the heap of *ServiceAccountConfig objects, by pointer
  handles,              \* the pointers CreateTemporaryAccess returned to API callers
  activeSessions,       \* map[string]*ServiceAccountConfig
  activeSessionsMutex,  \* the thread holding the write lock, or None
  serviceAccounts,      \* control plane: service accounts of namespace kube-system
  clusterRoleBindings,  \* control plane: cluster role bindings
  kubeConfigFile,       \* the document in config.KubeConfigFile
  th,                   \* every thread's frame: position and locals
  sweepNow,             \* cleanupExpiredSessions: now
  sweepTodo,            \* cleanupExpiredSessions: the keys the range has yet to visit
  calls,                \* how many handlers and API calls the workers started
  faults,               \* how many invocations of kubectl and file writes failed
  activated,            \* history: the sessions of the successful activations, and when
  crashed,              \* a handler panicked: the process is gone
  shellRc,              \* the lines of the rc file of the shell
  shellRcBefore         \* history: the rc file before the integration was installed

vars == <<now, ticks, configs, handles, activeSessions, activeSessionsMutex,
          serviceAccounts, clusterRoleBindings, kubeConfigFile, th,
          sweepNow, sweepTodo, calls, faults, activated, crashed, shellRc,
          shellRcBefore>>

\* the content of an rc file that is empty or not there: strings.Split of
\* it is one empty line
NoRc == << [indent |-> 0, text |-> <<>>] >>

\* ------------------------------------------------------------------ frames

\* a nil error; an error is the sequence of the pieces of its message
NilErr == <<>>

\* time.Time{}: the ExpiresAt of a config that was never given one
ZeroTime == 0 - 1

NoConfig == [Name |-> <<>>, Namespace |-> "", User |-> NoUser, ExpiresAt |-> ZeroTime]

\* what a call of CreateTemporaryAccess did: the user it ran for, whether it
\* returned a config, the number of kubectl apply it issued
NoCreate == [user |-> NoUser, ok |-> FALSE, applied |-> 0]

\* A bearer token as verifyTokenExpiry reads it: parts is the number of
\* segments strings.Split(token, ".") yields; payload says what the second
\* segment holds ("undecodable": no base64url; "unparsable": bytes that
\* json.Unmarshal refuses for the claims struct, being no JSON, no object or
\* an object whose exp is no integer; "noexp": a JSON object without exp;
\* "claims": a JSON object with an integer exp); exp is that integer and sub
\* the service account the token was issued for.
Opaque(sub) == [sub |-> sub, exp |-> ZeroTime, parts |-> 1, payload |-> "undecodable"]

\* what kubectl create token answers: a JWT of three segments
Jwt(sub, exp) == [sub |-> sub, exp |-> exp, parts |-> 3, payload |-> "claims"]

\* the empty string
NoToken == Opaque(<<>>)

\* A configuration document, as yaml.Unmarshal (yaml.v3) reads it into a
\* map[string]interface{}.  contexts says what contexts[0] decodes to
\* ("absent": no contexts list or an empty one; "scalar": no map; "string": a
\* map whose keys are all strings, decoded as map[string]interface{};
\* "general": a map with a key that is no string, decoded as
\* map[interface{}]interface{}; "noname": such a map without a name); name is
\* contexts[0].name split on "@"; users says what users[0] decodes to
\* ("absent": no users list or an empty one; "scalar": no map; "general": a
\* map with a key that is no string; "nouser": a map of string keys whose
\* user is no such map; "ok": a map of string keys whose user is one); token
\* is users[0].user.token and cert users[0].user.client-certificate-data;
\* expiry is the time after "--expiry" in users[0].user.exec.args (ZeroTime:
\* there is none); clusters stands for the rest of the document.
EmptyFile ==
  [contexts |-> "absent", name |-> <<>>, users |-> "absent", token |-> NoToken,
   cert |-> "absent", expiry |-> ZeroTime, clusters |-> "absent"]

\* the documents the blob store serves: an administrator's kubeconfig
\* ("admin@prod"), and one whose context is named after alice's service
\* account ("alice-user@prod") and holds a key that is no string
S3Docs ==
  { [contexts |-> "string", name |-> << <<"admin">>, <<"prod">> >>, users |-> "ok",
     token |-> Opaque(<<"admin">>), cert |-> "present", expiry |-> ZeroTime,
     clusters |-> "prod"],
    [contexts |-> "general", name |-> << <<"alice", "-user">>, <<"prod">> >>, users |-> "ok",
     token |-> Opaque(<<"admin">>), cert |-> "present", expiry |-> ZeroTime,
     clusters |-> "prod"] }

\* A thread's frame.  pc is its position, op the handler it runs, cfg the
\* config pointer it works on (Nil: the config is the private value local),
\* user what whoami answered, dur a duration in seconds, i a loop counter,
\* errs the errs slice of CleanupTemporaryAccess, err the error the function
\* it last left returned, token the token GetTemporaryToken holds, doc the
\* originalConfig of ActivateCmd.  The remaining fields record what the
\* current call did: log the kubectl deletes it issued with their outcomes,
\* guard what its active-session check saw, applied the number of kubectl
\* apply it issued, found the answer of serviceAccountExists, present
\* whether the control plane held the account when that question was asked
\* and probed whether the kubectl that asked it worked, prev the summary of
\* the CreateTemporaryAccess call this thread made just before, req the
\* value of the --session flag the command was started with, raised whether
\* GetTemporaryToken raised config.ExpiresAt.
IdleFrame ==
  [pc |-> "idle", op |-> None, cfg |-> Nil, local |-> NoConfig, user |-> NoUser,
   dur |-> 0, i |-> 0, errs |-> <<>>, err |-> NilErr, token |-> NoToken,
   doc |-> EmptyFile, log |-> <<>>, guard |-> None,
   applied |-> 0, found |-> FALSE, present |-> FALSE, probed |-> FALSE,
   prev |-> NoCreate, req |-> 0, raised |-> FALSE]

\* the config a thread's current call works on
Cfg(t) == IF th[t].cfg # Nil THEN configs[th[t].cfg] ELSE th[t].local

Init ==
  /\ now = 0
  /\ ticks = 0
  /\ configs = <<>>
  /\ handles = {}
  /\ activeSessions = <<>>
  /\ activeSessionsMutex = None
  /\ serviceAccounts = {}
  /\ clusterRoleBindings = {}
  /\ kubeConfigFile = EmptyFile
  /\ th = [t \in Threads |-> IF t = Sweeper
                               THEN [IdleFrame EXCEPT !.pc = "sleep", !.op = "sweep"]
                               ELSE IdleFrame]
  /\ sweepNow = 0
  /\ sweepTodo = {}
  /\ calls = 0
  /\ faults = 0
  /\ activated = {}
  /\ crashed = FALSE
  /\ shellRc = NoRc
  /\ shellRcBefore = NoRc

\* ------------------------------------------------------------------ faults

\* the number of failures in an outcome
Failed(ok) == IF ok THEN 0 ELSE 1

\* n more invocations fail
Fault(n) ==
  /\ faults + n <= MaxFaults
  /\ faults' = faults + n

\* ------------------------------------------------------------------- clock

Tick(d) ==
  /\ ticks < MaxTicks
  /\ now' = now + d
  /\ ticks' = ticks + 1
  /\ UNCHANGED <<configs, handles, activeSessions, activeSessionsMutex,
                 serviceAccounts, clusterRoleBindings, kubeConfigFile, th,
                 sweepNow, sweepTodo, calls, faults, activated, crashed,
                 shellRc, shellRcBefore>>

\* ---------------------------------------------------------- SessionRegistry

\* a map assignment that keeps the entry a key already has
KeepFirst(m, name, ptr) ==
  [k \in DOMAIN m \cup {name} |-> IF k \in DOMAIN m THEN m[k] ELSE ptr]

\* activeSessions[name] = ptr
MapPut(m, name, ptr) ==
  [k \in DOMAIN m \cup {name} |-> IF k = name THEN ptr ELSE m[k]]

\* delete(activeSessions, id)
MapDelete(m, id) == [k \in DOMAIN m \ {id} |-> m[k]]

\* an API caller calls RegisterSession(config) and waits for the lock
ApiRegister(w, c) ==
  /\ ~crashed
  /\ th[w].pc = "idle"
  /\ calls < MaxCalls
  /\ calls' = calls + 1
  /\ c \in handles
  /\ th' = [th EXCEPT ![w] = [IdleFrame EXCEPT !.pc = "reg_lock", !.op = "api_register",
                                               !.cfg = c]]
  /\ UNCHANGED <<now, ticks, configs, handles, activeSessions,
                 activeSessionsMutex, serviceAccounts, clusterRoleBindings,
                 kubeConfigFile, sweepNow, sweepTodo, faults, activated,
                 crashed, shellRc, shellRcBefore>>

\* RegisterSession: Lock, activeSessions[config.Name] = config, Unlock
RegisterSession(w) ==
  /\ ~crashed
  /\ th[w].pc = "reg_lock"
  /\ activeSessionsMutex = None
  /\ activeSessions' = MapPut(activeSessions, configs[th[w].cfg].Name, th[w].cfg)
  /\ th' = [th EXCEPT ![w] = IdleFrame]
  /\ UNCHANGED <<now, ticks, configs, handles, activeSessionsMutex,
                 serviceAccounts, clusterRoleBindings, kubeConfigFile,
                 sweepNow, sweepTodo, calls, faults, activated, crashed,
                 shellRc, shellRcBefore>>

\* ------------------------------------------------- CleanupTemporaryAccess

\* the loop of CleanupTemporaryAccess over activeSessions: some session of
\* this user is not yet past its ExpiresAt
HasActiveSessions(user) ==
  \E id \in DOMAIN activeSessions :
    LET session == configs[activeSessions[id]]
    IN  session.User = user /\ ~After(now, session.ExpiresAt)

\* fmt.Sprintf("failed to delete clusterrolebinding: %v", err) and its twin
DeleteError(kind) ==
  IF kind = "clusterrolebinding" THEN "failed to delete clusterrolebinding"
                                 ELSE "failed to delete serviceaccount"

\* a CleanupTemporaryAccess that deleted the service account first
IdentityFirst == <<"serviceaccount", "clusterrolebinding">>

\* a CleanupTemporaryAccess that forgot the cluster role binding
IdentityOnly == <<"serviceaccount">>

\* a CleanupTemporaryAccess that returned at the first failed delete
StopAtFirstError(i, ok) == IF ok /\ i < 2 THEN "cta_del" ELSE "cta_ret"

\* "Delete in reverse order": the kubectl deletes, in the order they are run
DeleteOrder == <<"clusterrolebinding", "serviceaccount">>

\* where CleanupTemporaryAccess goes after its i-th delete
AfterDelete(i, ok) == IF i < Len(DeleteOrder) THEN "cta_del" ELSE "cta_ret"

\* the error CleanupTemporaryAccess returns for its errs:
\* "cleanup errors: " and the messages joined, or nil
CleanupError(errs) == IF Len(errs) > 0 THEN <<"cleanup errors">> \o errs ELSE NilErr

\* an API caller calls CleanupTemporaryAccess(config)
ApiCleanup(w, c) ==
  /\ ~crashed
  /\ th[w].pc = "idle"
  /\ calls < MaxCalls
  /\ calls' = calls + 1
  /\ c \in handles
  /\ th' = [th EXCEPT ![w] = [IdleFrame EXCEPT !.pc = "cta_rlock", !.op = "api_cleanup",
                                               !.cfg = c]]
  /\ UNCHANGED <<now, ticks, configs, handles, activeSessions,
                 activeSessionsMutex, serviceAccounts, clusterRoleBindings,
                 kubeConfigFile, sweepNow, sweepTodo, faults, activated,
                 crashed, shellRc, shellRcBefore>>

\* RLock, the loop over activeSessions, RUnlock, and the early return.  The
\* read lock is granted only while no thread holds the write lock (the one
\* that holds it included: sync.RWMutex is not reentrant).
CleanupCheck(t) ==
  /\ ~crashed
  /\ th[t].pc = "cta_rlock"
  /\ activeSessionsMutex = None
  /\ LET hasActiveSessions == HasActiveSessions(Cfg(t).User)
     IN  th' = [th EXCEPT ![t].guard = IF hasActiveSessions THEN "active" ELSE "clear",
                          ![t].pc = IF hasActiveSessions THEN "cta_ret" ELSE "cta_del",
                          ![t].i = 1,
                          ![t].errs = <<>>,
                          ![t].err = NilErr]
  /\ UNCHANGED <<now, ticks, configs, handles, activeSessions,
                 activeSessionsMutex, serviceAccounts, clusterRoleBindings,
                 kubeConfigFile, sweepNow, sweepTodo, calls, faults,
                 activated, crashed, shellRc, shellRcBefore>>

\* one kubectl delete ... --ignore-not-found=true, which succeeds or fails
CleanupDelete(t) ==
  /\ ~crashed
  /\ th[t].pc = "cta_del"
  /\ \E ok \in BOOLEAN :
       LET kind == DeleteOrder[th[t].i]
           errs == IF ok THEN th[t].errs
                         ELSE Append(th[t].errs, DeleteError(kind))
           pc   == AfterDelete(th[t].i, ok)
       IN  /\ Fault(Failed(ok))
           /\ clusterRoleBindings' =
                IF ok /\ kind = "clusterrolebinding"
                  THEN clusterRoleBindings \ {CRBName(Cfg(t).Name)}
                  ELSE clusterRoleBindings
           /\ serviceAccounts' =
                IF ok /\ kind = "serviceaccount"
                  THEN serviceAccounts \ {Cfg(t).Name}
                  ELSE serviceAccounts
           /\ th' = [th EXCEPT ![t].pc = pc,
                               ![t].i = th[t].i + 1,
                               ![t].errs = errs,
                               ![t].err = IF pc = "cta_ret" THEN CleanupError(errs) ELSE NilErr,
                               ![t].log = Append(th[t].log, [kind |-> kind, ok |-> ok])]
  /\ UNCHANGED <<now, ticks, configs, handles, activeSessions,
                 activeSessionsMutex, kubeConfigFile, sweepNow, sweepTodo,
                 calls, activated, crashed, shellRc, shellRcBefore>>

\* CleanupTemporaryAccess returns to its caller.  Called by an API caller,
\* the call is over.  Called by cleanupExpiredSessions, the error is printed,
\* delete(activeSessions, id) runs and the range goes on.  Called by
\* DeactivateCmd, the result is printed, cleanupSessions removes the session
\* files and the command ends.
CleanupReturn(t) ==
  /\ ~crashed
  /\ th[t].pc = "cta_ret"
  /\ IF th[t].op = "sweep"
       THEN /\ activeSessions' = MapDelete(activeSessions, Cfg(t).Name)
            /\ sweepTodo' = sweepTodo \ {Cfg(t).Name}
            /\ th' = [th EXCEPT ![t] = [IdleFrame EXCEPT !.pc = "scan", !.op = "sweep"]]
       ELSE /\ th' = [th EXCEPT ![t] = IdleFrame]
            /\ UNCHANGED <<activeSessions, sweepTodo>>
  /\ UNCHANGED <<now, ticks, configs, handles, activeSessionsMutex,
                 serviceAccounts, clusterRoleBindings, kubeConfigFile,
                 sweepNow, calls, faults, activated, crashed,
                 shellRc, shellRcBefore>>

\* --------------------------------------------------------- CleanupScheduler

\* StartCleanupRoutine: time.Sleep(time.Minute), in seconds
SweepPeriod == 60

\* cleanupExpiredSessions, after the minute's sleep of StartCleanupRoutine
\* (the routine last looked at the clock at sweepNow, so it sleeps at least
\* until a minute after that): Lock (released by the deferred Unlock),
\* now := time.Now(), and the range over activeSessions begins
SweepLock ==
  /\ ~crashed
  /\ th[Sweeper].pc = "sleep"
  /\ now >= sweepNow + SweepPeriod
  /\ activeSessionsMutex = None
  /\ activeSessionsMutex' = Sweeper
  /\ sweepNow' = now
  /\ sweepTodo' = DOMAIN activeSessions
  /\ th' = [th EXCEPT ![Sweeper].pc = "scan"]
  /\ UNCHANGED <<now, ticks, configs, handles, activeSessions,
                 serviceAccounts, clusterRoleBindings, kubeConfigFile, calls,
                 faults, activated, crashed, shellRc, shellRcBefore>>

\* one iteration of the range: an expired session is handed to
\* CleanupTemporaryAccess, any other is left alone
SweepScan ==
  /\ ~crashed
  /\ th[Sweeper].pc = "scan"
  /\ \E id \in sweepTodo :
       LET session == activeSessions[id]
       IN  IF After(sweepNow, configs[session].ExpiresAt)
             THEN /\ th' = [th EXCEPT ![Sweeper].pc = "cta_rlock",
                                      ![Sweeper].cfg = session]
                  /\ UNCHANGED sweepTodo
             ELSE /\ sweepTodo' = sweepTodo \ {id}
                  /\ UNCHANGED th
  /\ UNCHANGED <<now, ticks, configs, handles, activeSessions,
                 activeSessionsMutex, serviceAccounts, clusterRoleBindings,
                 kubeConfigFile, sweepNow, calls, faults, activated, crashed,
                 shellRc, shellRcBefore>>

\* the range is over: the deferred Unlock runs and the routine sleeps again
SweepUnlock ==
  /\ ~crashed
  /\ th[Sweeper].pc = "scan"
  /\ sweepTodo = {}
  /\ activeSessionsMutex' = None
  /\ th' = [th EXCEPT ![Sweeper].pc = "sleep"]
  /\ UNCHANGED <<now, ticks, configs, handles, activeSessions,
                 serviceAccounts, clusterRoleBindings, kubeConfigFile,
                 sweepNow, sweepTodo, calls, faults, activated, crashed,
                 shellRc, shellRcBefore>>

\* ---------------------------------------------------- CreateTemporaryAccess

\* the durations an API caller passes to CreateTemporaryAccess (seconds)
ApiDurations == {600}

\* an API caller calls CreateTemporaryAccess(duration)
ApiCreate(w, user, duration) ==
  /\ ~crashed
  /\ th[w].pc = "idle"
  /\ calls < MaxCalls
  /\ calls' = calls + 1
  /\ th' = [th EXCEPT ![w] = [IdleFrame EXCEPT !.pc = "cr_probe", !.op = "api_create",
                                               !.user = user, !.dur = duration,
                                               !.prev = th[w].prev]]
  /\ UNCHANGED <<now, ticks, configs, handles, activeSessions,
                 activeSessionsMutex, serviceAccounts, clusterRoleBindings,
                 kubeConfigFile, sweepNow, sweepTodo, faults, activated,
                 crashed, shellRc, shellRcBefore>>

\* a CreateTemporaryAccess that goes on whatever verifyClusterAccess said
IgnoreProbe(canI, infoOk) == "cr_exists"

\* where CreateTemporaryAccess goes after verifyClusterAccess, getCurrentUser
\* and getClusterInfo: on to serviceAccountExists, or back to its caller with
\* (nil, err) when one of them failed
AfterProbe(canI, infoOk) == IF canI /\ infoOk THEN "cr_exists" ELSE "cr_ret"

\* the error of verifyClusterAccess as CreateTemporaryAccess wraps it
AccessCheckFailed == <<"cluster access check failed">>

\* verifyClusterAccess, getCurrentUser, getClusterInfo and the config literal
CreateProbe(t) ==
  /\ ~crashed
  /\ th[t].pc = "cr_probe"
  /\ \E canI \in BOOLEAN, infoOk \in BOOLEAN :
       /\ canI \/ infoOk
       /\ Fault(Failed(canI /\ infoOk))
       /\ th' = [th EXCEPT
         ![t].pc = AfterProbe(canI, infoOk),
         ![t].err = IF ~canI THEN AccessCheckFailed
                    ELSE IF ~infoOk THEN <<"cannot access cluster">>
                    ELSE NilErr,
         ![t].local = IF canI /\ infoOk
                        THEN [Name |-> SAName(th[t].user), Namespace |-> KubeSystem,
                              User |-> th[t].user, ExpiresAt |-> now + th[t].dur]
                        ELSE NoConfig]
  /\ UNCHANGED <<now, ticks, configs, handles, activeSessions,
                 activeSessionsMutex, serviceAccounts, clusterRoleBindings,
                 kubeConfigFile, sweepNow, sweepTodo, calls, activated,
                 crashed, shellRc, shellRcBefore>>

\* a kubectl get that prints the name it was asked for, account or none
EchoName(name, ok) == name

\* kubectl get serviceaccount -o jsonpath={.metadata.name}: the output is
\* the name when the call works and the account is there, empty otherwise
GetServiceAccount(name, ok) == IF ok /\ name \in serviceAccounts THEN name ELSE <<>>

\* a serviceAccountExists that never saw the account
NeverExists(name, ok) == FALSE

\* a serviceAccountExists that always saw the account
AlwaysExists(name, ok) == TRUE

\* serviceAccountExists: len(output) > 0, the error dropped
ServiceAccountExists(name, ok) == Len(GetServiceAccount(name, ok)) > 0

\* "Check if SA already exists": createResources and the wait are skipped
\* when it does
CreateExists(t) ==
  /\ ~crashed
  /\ th[t].pc = "cr_exists"
  /\ \E ok \in BOOLEAN :
       LET exists == ServiceAccountExists(Cfg(t).Name, ok)
       IN  /\ Fault(Failed(ok))
           /\ th' = [th EXCEPT ![t].found = exists,
                               ![t].present = Cfg(t).Name \in serviceAccounts,
                               ![t].probed = ok,
                               ![t].pc = IF exists THEN "cr_ret" ELSE "cr_apply"]
  /\ UNCHANGED <<now, ticks, configs, handles, activeSessions,
                 activeSessionsMutex, serviceAccounts, clusterRoleBindings,
                 kubeConfigFile, sweepNow, sweepTodo, calls, activated,
                 crashed, shellRc, shellRcBefore>>

\* createResources: kubectl apply -f - of the service account and of its
\* cluster-admin binding; each of the two may fail, and the command fails
\* when one does
CreateResources(t) ==
  /\ ~crashed
  /\ th[t].pc = "cr_apply"
  /\ \E saOk \in BOOLEAN, crbOk \in BOOLEAN :
       /\ Fault(Failed(saOk /\ crbOk))
       /\ serviceAccounts' = IF saOk THEN serviceAccounts \cup {Cfg(t).Name}
                                     ELSE serviceAccounts
       /\ clusterRoleBindings' = IF crbOk THEN clusterRoleBindings \cup {CRBName(Cfg(t).Name)}
                                          ELSE clusterRoleBindings
       /\ th' = [th EXCEPT
            ![t].applied = th[t].applied + 1,
            ![t].i = 0,
            ![t].pc = IF saOk /\ crbOk THEN "cr_wait" ELSE "cr_ret",
            ![t].err = IF saOk /\ crbOk THEN NilErr ELSE <<"error creating resources">>]
  /\ UNCHANGED <<now, ticks, configs, handles, activeSessions,
                 activeSessionsMutex, kubeConfigFile, sweepNow, sweepTodo,
                 calls, activated, crashed, shellRc, shellRcBefore>>

\* a wait that asks once more before it gives up
OneMoreAttempt == 10 + 1

\* waitForServiceAccount: maxAttempts
maxAttempts == 10

\* the error of a waitForServiceAccount that gave up, as its callers wrap it
NotReady == <<"service account not ready",
              "timeout waiting for service account to be ready">>

\* one attempt of waitForServiceAccount, for CreateTemporaryAccess ("cr_wait")
\* and for GetTemporaryToken ("tk_wait"): the account is seen and the wait
\* is over, or a second is slept; after maxAttempts the wait times out
WaitForServiceAccount(t) ==
  /\ ~crashed
  /\ th[t].pc \in {"cr_wait", "tk_wait"}
  /\ \E ok \in BOOLEAN :
       LET seen == Len(GetServiceAccount(Cfg(t).Name, ok)) > 0
           last == th[t].i + 1 >= maxAttempts
           inCreate == th[t].pc = "cr_wait"
       IN  /\ Fault(Failed(ok))
           /\ th' = [th EXCEPT
             ![t].i = IF seen THEN 0 ELSE th[t].i + 1,
             ![t].pc = IF seen THEN (IF inCreate THEN "cr_ret" ELSE "tk_clamp")
                       ELSE IF last THEN (IF inCreate THEN "cr_ret" ELSE "tk_ret")
                       ELSE th[t].pc,
             ![t].err = IF ~seen /\ last THEN NotReady ELSE NilErr]
  /\ UNCHANGED <<now, ticks, configs, handles, activeSessions,
                 activeSessionsMutex, serviceAccounts, clusterRoleBindings,
                 kubeConfigFile, sweepNow, sweepTodo, calls, activated,
                 crashed, shellRc, shellRcBefore>>

\* CreateTemporaryAccess returns (config, nil) or (nil, err).  The API
\* caller keeps the config; ActivateCmd prints the error and returns, or
\* goes on to GetTemporaryToken(saConfig).
CreateReturn(t) ==
  /\ ~crashed
  /\ th[t].pc = "cr_ret"
  /\ LET ok == th[t].err = NilErr
         ptr == Len(configs) + 1
         summary == [user |-> th[t].user, ok |-> ok, applied |-> th[t].applied]
     IN  /\ configs' = IF ok THEN Append(configs, th[t].local) ELSE configs
         /\ handles' = IF ok /\ th[t].op = "api_create" THEN handles \cup {ptr} ELSE handles
         /\ th' = [th EXCEPT ![t] =
              IF ok /\ th[t].op = "activate"
                THEN [IdleFrame EXCEPT !.pc = "tk_wait", !.op = "activate", !.cfg = ptr,
                                       !.doc = th[t].doc, !.req = th[t].req]
                ELSE [IdleFrame EXCEPT !.prev = IF th[t].op = "api_create" THEN summary
                                                                            ELSE NoCreate]]
  /\ UNCHANGED <<now, ticks, activeSessions, activeSessionsMutex,
                 serviceAccounts, clusterRoleBindings, kubeConfigFile,
                 sweepNow, sweepTodo, calls, faults, activated, crashed,
                 shellRc, shellRcBefore>>

\* -------------------------------------------------------- GetTemporaryToken

\* GetTemporaryToken: minSeconds
minSeconds == 600

\* a tolerance of two minutes
TwoMinutes == 2 * 60

\* verifyTokenExpiry: time.Minute, in seconds
Tolerance == 60

Abs(x) == IF x < 0 THEN 0 - x ELSE x

\* claims.Exp after json.Unmarshal(payload, &claims): the exp of the payload,
\* and the zero value the struct started with when the payload has none
ClaimsExp(token) == IF token.payload = "claims" THEN token.exp ELSE 0

\* Time.Format(time.RFC3339): the text of a time, to the second
RFC3339(t) == ToString(t)

\* "token expiry mismatch: expected %s, got %s"
ExpiryMismatch(expectedExpiry, tokenExpiry) ==
  <<"token expiry mismatch", "expected", RFC3339(expectedExpiry),
    "got", RFC3339(tokenExpiry)>>

\* a verifyTokenExpiry that accepts every token
AcceptAll(token, expectedExpiry) == NilErr

\* a verifyTokenExpiry that checks the format and not the expiry
AcceptWellFormed(token, expectedExpiry) ==
  IF token.parts # 3 THEN <<"invalid token format">>
  ELSE IF token.payload = "undecodable" THEN <<"error decoding token">>
  ELSE IF token.payload = "unparsable" THEN <<"error parsing token claims">>
  ELSE NilErr

\* verifyTokenExpiry: the error, or nil
VerifyTokenExpiry(token, expectedExpiry) ==
  IF token.parts # 3 THEN <<"invalid token format">>
  ELSE IF token.payload = "undecodable" THEN <<"error decoding token">>
  ELSE IF token.payload = "unparsable" THEN <<"error parsing token claims">>
  ELSE IF Abs(ClaimsExp(token) - expectedExpiry) > Tolerance
    THEN ExpiryMismatch(expectedExpiry, ClaimsExp(token))
  ELSE NilErr

\* an API caller calls GetTemporaryToken(config)
ApiToken(w, c) ==
  /\ ~crashed
  /\ th[w].pc = "idle"
  /\ calls < MaxCalls
  /\ calls' = calls + 1
  /\ c \in handles
  /\ th' = [th EXCEPT ![w] = [IdleFrame EXCEPT !.pc = "tk_wait", !.op = "api_token",
                                               !.cfg = c]]
  /\ UNCHANGED <<now, ticks, configs, handles, activeSessions,
                 activeSessionsMutex, serviceAccounts, clusterRoleBindings,
                 kubeConfigFile, sweepNow, sweepTodo, faults, activated,
                 crashed, shellRc, shellRcBefore>>

\* no clamp: the duration is what is left of the session
NoClamp(expiresAt, at) ==
  [durationSeconds |-> expiresAt - at, ExpiresAt |-> expiresAt, raised |-> FALSE]

\* a clamp that asks for minSeconds and leaves config.ExpiresAt as it was
ClampWithoutRaise(expiresAt, at) ==
  IF expiresAt - at < minSeconds
    THEN [durationSeconds |-> minSeconds, ExpiresAt |-> expiresAt, raised |-> TRUE]
    ELSE [durationSeconds |-> expiresAt - at, ExpiresAt |-> expiresAt, raised |-> FALSE]

\* a clamp that sets config.ExpiresAt to ten minutes from now whatever is left
ClampAlways(expiresAt, at) ==
  [durationSeconds |-> IF expiresAt - at < minSeconds THEN minSeconds ELSE expiresAt - at,
   ExpiresAt |-> at + minSeconds, raised |-> TRUE]

\* durationSeconds := int(time.Until(config.ExpiresAt).Seconds()) at the time
\* at; below minSeconds it is raised to minSeconds and config.ExpiresAt is
\* set to ten minutes from now; there is no upper limit
Clamp(expiresAt, at) ==
  IF expiresAt - at < minSeconds
    THEN [durationSeconds |-> minSeconds, ExpiresAt |-> at + minSeconds, raised |-> TRUE]
    ELSE [durationSeconds |-> expiresAt - at, ExpiresAt |-> expiresAt, raised |-> FALSE]

\* GetTemporaryToken between the wait and kubectl create token: the duration
\* is computed and config.ExpiresAt written through the pointer
TokenClamp(t) ==
  /\ ~crashed
  /\ th[t].pc = "tk_clamp"
  /\ LET clamped == Clamp(configs[th[t].cfg].ExpiresAt, now)
     IN  /\ configs' = [configs EXCEPT ![th[t].cfg].ExpiresAt = clamped.ExpiresAt]
         /\ th' = [th EXCEPT ![t].pc = "tk_issue",
                             ![t].dur = clamped.durationSeconds,
                             ![t].raised = clamped.raised]
  /\ UNCHANGED <<now, ticks, handles, activeSessions, activeSessionsMutex,
                 serviceAccounts, clusterRoleBindings, kubeConfigFile,
                 sweepNow, sweepTodo, calls, faults, activated, crashed,
                 shellRc, shellRcBefore>>

\* kubectl create token NAME --duration Ns, which fails when the call fails
\* or the account is gone and else answers a token that expires N seconds
\* from now; then verifyTokenExpiry(token, config.ExpiresAt)
TokenIssue(t) ==
  /\ ~crashed
  /\ th[t].pc = "tk_issue"
  /\ \E ok \in BOOLEAN :
       LET config == configs[th[t].cfg]
           issued == ok /\ config.Name \in serviceAccounts
           token == Jwt(config.Name, now + th[t].dur)
           verified == VerifyTokenExpiry(token, config.ExpiresAt)
           err == IF ~issued THEN <<"error creating token">>
                  ELSE IF verified # NilErr THEN <<"token verification failed">> \o verified
                  ELSE NilErr
       IN  /\ Fault(Failed(ok))
           /\ th' = [th EXCEPT ![t].pc = "tk_ret",
                               ![t].err = err,
                               ![t].token = IF err = NilErr THEN token ELSE NoToken]
  /\ UNCHANGED <<now, ticks, configs, handles, activeSessions,
                 activeSessionsMutex, serviceAccounts, clusterRoleBindings,
                 kubeConfigFile, sweepNow, sweepTodo, calls, activated,
                 crashed, shellRc, shellRcBefore>>

\* a rewrite that drops the certificate, as ModifyKubeconfig of token.go does
ModifyDroppingCertificate(originalConfig, token) ==
  IF originalConfig.users = "absent"
    THEN [out |-> "error", err |-> <<"no users found in kubeconfig">>, doc |-> EmptyFile]
  ELSE IF originalConfig.users # "ok"
    THEN [out |-> "panic", err |-> NilErr, doc |-> EmptyFile]
  ELSE [out |-> "doc", err |-> NilErr,
        doc |-> [originalConfig EXCEPT !.token = token, !.cert = "absent"]]

\* ModifyKubeconfigWithToken: out is "doc", "error" or "panic".  The document
\* comes back with users[0].user.token replaced; without a users list the
\* error is returned; the type assertions users[0].(map[string]interface{})
\* and user["user"].(map[string]interface{}) panic on anything else.
ModifyKubeconfigWithToken(originalConfig, token) ==
  IF originalConfig.users = "absent"
    THEN [out |-> "error", err |-> <<"no users found in kubeconfig">>, doc |-> EmptyFile]
  ELSE IF originalConfig.users # "ok"
    THEN [out |-> "panic", err |-> NilErr, doc |-> EmptyFile]
  ELSE [out |-> "doc", err |-> NilErr, doc |-> [originalConfig EXCEPT !.token = token]]

\* GetTemporaryToken returns (token, nil) or ("", err).  The API caller is
\* done.  ActivateCmd prints the error and returns, or it rewrites the
\* downloaded document with the token and writes it to config.KubeConfigFile
\* (os.WriteFile, which may fail).
TokenReturn(t) ==
  /\ ~crashed
  /\ th[t].pc = "tk_ret"
  /\ \E written \in BOOLEAN :
       LET ok == th[t].err = NilErr
           modified == ModifyKubeconfigWithToken(th[t].doc, th[t].token)
           rewrites == th[t].op = "activate" /\ ok
           writes == rewrites /\ modified.out = "doc"
           saved == writes /\ written
       IN  /\ written \/ writes
           /\ Fault(Failed(written))
           /\ kubeConfigFile' = IF saved THEN modified.doc ELSE kubeConfigFile
           /\ activated' = IF saved THEN activated \cup {[cfg |-> th[t].cfg, at |-> now]}
                                     ELSE activated
           /\ crashed' = (rewrites /\ modified.out = "panic")
  /\ th' = [th EXCEPT ![t] = IdleFrame]
  /\ UNCHANGED <<now, ticks, configs, handles, activeSessions,
                 activeSessionsMutex, serviceAccounts, clusterRoleBindings,
                 sweepNow, sweepTodo, calls, shellRc, shellRcBefore>>

\* --------------------------------------------------------------- ActivateCmd

\* 24*time.Hour and 10*time.Minute, in seconds
MaxSession == 86400
MinSession == 600

\* the values of the --session flag that are tried (seconds): none, one
\* below the minimum and one above the maximum, and with LongSessions one
\* between the two
SessionFlags == {0, 1, 86401}
LongSessions == {900}

\* what ActivateCmd prints when it refuses the --session flag
InvalidSession == <<"Valid session duration is required">>
SessionTooLong == <<"Maximum session duration is 24 hours">>

\* ActivateCmd up to CreateTemporaryAccess: the session flag is validated
\* (refused when not positive or above 24 hours, raised to 10 minutes when
\* below), then LoadConfig, ValidateKubeconfigName, downloadFromS3 and the
\* write of the temporary kubeconfig, any of which may fail
ActivateCmd(w, user, sessionDuration, originalConfig) ==
  /\ ~crashed
  /\ th[w].pc = "idle"
  /\ calls < MaxCalls
  /\ calls' = calls + 1
  /\ \E envOk \in BOOLEAN :
       /\ Fault(Failed(envOk))
       /\ envOk \/ (sessionDuration > 0 /\ sessionDuration <= MaxSession)
       /\ IF sessionDuration <= 0
         THEN th' = [th EXCEPT ![w] = [IdleFrame EXCEPT !.err = InvalidSession]]
         ELSE IF sessionDuration > MaxSession
         THEN th' = [th EXCEPT ![w] = [IdleFrame EXCEPT !.err = SessionTooLong,
                                                        !.req = sessionDuration]]
         ELSE IF ~envOk
         THEN th' = [th EXCEPT ![w] = IdleFrame]
         ELSE th' = [th EXCEPT ![w] =
                [IdleFrame EXCEPT !.pc = "cr_probe", !.op = "activate", !.user = user,
                                  !.req = sessionDuration,
                                  !.dur = IF sessionDuration < MinSession
                                            THEN MinSession ELSE sessionDuration,
                                  !.doc = originalConfig]]
  /\ UNCHANGED <<now, ticks, configs, handles, activeSessions,
                 activeSessionsMutex, serviceAccounts, clusterRoleBindings,
                 kubeConfigFile, sweepNow, sweepTodo, activated, crashed,
                 shellRc, shellRcBefore>>

\* ------------------------------------------------------------- DeactivateCmd

\* GetServiceAccountFromConfig: out is "config", "error" or "panic".  The
\* type assertion contexts[0].(map[interface{}]interface{}) panics on the
\* map[string]interface{} that yaml.v3 makes of a map with string keys and
\* on what is no map; context["name"].(string) panics without a name.
GetServiceAccountFromConfig(file) ==
  IF file.contexts = "absent"
    THEN [out |-> "error", err |-> <<"no contexts found">>, config |-> NoConfig]
  ELSE IF file.contexts \in {"scalar", "string", "noname"}
    THEN [out |-> "panic", err |-> NilErr, config |-> NoConfig]
  ELSE IF Len(file.name) # 2
    THEN [out |-> "error", err |-> <<"invalid context name format">>,
          config |-> NoConfig]
  ELSE [out |-> "config", err |-> NilErr,
        config |-> [Name |-> file.name[1], Namespace |-> KubeSystem,
                    User |-> NoUser, ExpiresAt |-> ZeroTime]]

\* DeactivateCmd up to CleanupTemporaryAccess: the service account is read
\* from the current kubeconfig, config.KubeConfigFile is emptied (a failed
\* write ends the command), and with a service account at hand
\* CleanupTemporaryAccess(saConfig) is called; without one the command ends
\* after cleanupSessions
DeactivateCmd(w) ==
  /\ ~crashed
  /\ th[w].pc = "idle"
  /\ calls < MaxCalls
  /\ calls' = calls + 1
  /\ \E written \in BOOLEAN :
       LET sa == GetServiceAccountFromConfig(kubeConfigFile)
       IN  IF sa.out = "panic"
             THEN /\ crashed' = TRUE
                  /\ written
                  /\ UNCHANGED <<th, kubeConfigFile, faults>>
             ELSE /\ crashed' = crashed
                  /\ Fault(Failed(written))
                  /\ kubeConfigFile' = IF written THEN EmptyFile ELSE kubeConfigFile
                  /\ th' = [th EXCEPT ![w] =
                       IF written /\ sa.out = "config"
                         THEN [IdleFrame EXCEPT !.pc = "cta_rlock", !.op = "deactivate",
                                                !.local = sa.config]
                         ELSE IdleFrame]
  /\ UNCHANGED <<now, ticks, configs, handles, activeSessions,
                 activeSessionsMutex, serviceAccounts, clusterRoleBindings,
                 sweepNow, sweepTodo, activated, shellRc, shellRcBefore>>

\* ------------------------------------------------------------ specification

\* the clock and the cleanup routine
Background ==
  \/ \E d \in TickSteps : Tick(d)
  \/ SweepLock
  \/ SweepScan
  \/ SweepUnlock

\* the steps of CreateTemporaryAccess
Create(W) ==
  \/ \E w \in W : CreateProbe(w)
  \/ \E w \in W : CreateExists(w)
  \/ \E w \in W : CreateResources(w)
  \/ \E w \in W : WaitForServiceAccount(w)
  \/ \E w \in W : CreateReturn(w)

\* the steps of CleanupTemporaryAccess
Cleanup(T) ==
  \/ \E t \in T : CleanupCheck(t)
  \/ \E t \in T : CleanupDelete(t)
  \/ \E t \in T : CleanupReturn(t)

\* the steps of GetTemporaryToken
Token(W) ==
  \/ \E w \in W : TokenClamp(w)
  \/ \E w \in W : TokenIssue(w)
  \/ \E w \in W : TokenReturn(w)

\* the threads W call CreateTemporaryAccess, RegisterSession and
\* CleanupTemporaryAccess, which the cleanup routine calls too
Api(W) ==
  \/ \E w \in W, user \in Users, d \in ApiDurations : ApiCreate(w, user, d)
  \/ \E w \in W, c \in 1..MaxCalls : ApiRegister(w, c)
  \/ \E w \in W : RegisterSession(w)
  \/ \E w \in W, c \in 1..MaxCalls : ApiCleanup(w, c)
  \/ Create(W)
  \/ Cleanup(W \cup {Sweeper})

\* the threads W run the commands with a --session flag out of F
Cli(W, F) ==
  \/ \E w \in W, user \in Users, d \in F, doc \in S3Docs : ActivateCmd(w, user, d, doc)
  \/ \E w \in W : DeactivateCmd(w)

\* the threads W call GetTemporaryToken and run the commands
Commands(W) ==
  \/ \E w \in W, c \in 1..MaxCalls : ApiToken(w, c)
  \/ Token(W)
  \/ Cli(W, SessionFlags)

\* the thread that runs the handlers one after the other
Foreground == {"w1"}

\* a process whose one foreground thread runs commands and API calls
Next == Background \/ Api(Foreground) \/ Commands(Foreground)

Spec == Init /\ [][Next]_vars

\* a process whose threads call the session API concurrently
NextApi == Background \/ Api(Workers)

SpecApi == Init /\ [][NextApi]_vars

\* documents ModifyKubeconfigWithToken cannot rewrite: one without users and
\* one whose users[0] has no user map
BrokenDocs ==
  { [contexts |-> "string", name |-> << <<"admin">>, <<"prod">> >>, users |-> "absent",
     token |-> NoToken, cert |-> "absent", expiry |-> ZeroTime, clusters |-> "prod"],
    [contexts |-> "string", name |-> << <<"admin">>, <<"prod">> >>, users |-> "nouser",
     token |-> NoToken, cert |-> "absent", expiry |-> ZeroTime, clusters |-> "prod"] }

\* a document from S3 that can be rewritten, and those that cannot
ActivateDocs == {doc \in S3Docs : doc.contexts = "general"} \cup BrokenDocs

\* kubconfig activate run again and again, on documents that can be
\* rewritten and on documents that cannot, while the clock advances
NextActivate ==
  \/ \E d \in TickSteps : Tick(d)
  \/ \E w \in Foreground, user \in Users, d \in SessionFlags \cup LongSessions,
        doc \in ActivateDocs : ActivateCmd(w, user, d, doc)
  \/ Create(Foreground)
  \/ Token(Foreground)

SpecActivate == Init /\ [][NextActivate]_vars

\* ----------------------------------------------------------------- StatusCmd

\* VerifyTokenExpiry of token.go at the time at: the time that follows
\* "--expiry" in the exec arguments of a user is the expiry, expired once the
\* clock is after it; a document without one gives an error
VerifyKubeconfigExpiry(file, at) ==
  IF file.users \in {"ok", "general"} /\ file.expiry # ZeroTime
    THEN [err |-> NilErr, expired |-> at > file.expiry, expiry |-> file.expiry]
    ELSE [err |-> <<"no token expiry found">>, expired |-> FALSE, expiry |-> ZeroTime]

\* StatusCmd: what VerifyTokenExpiry says of config.KubeConfigFile is printed
StatusCmd(w) ==
  /\ ~crashed
  /\ th[w].pc = "idle"
  /\ LET status == VerifyKubeconfigExpiry(kubeConfigFile, now)
         report == IF status.err # NilErr
                     THEN <<"Error checking token status">> \o status.err
                   ELSE IF status.expired
                     THEN <<"Token has expired", RFC3339(status.expiry)>>
                   ELSE <<"Token is valid", ToString(status.expiry - now)>>
     IN  th' = [th EXCEPT ![w] = [IdleFrame EXCEPT !.op = "status", !.err = status.err,
                                                   !.log = report]]
  /\ UNCHANGED <<now, ticks, configs, handles, activeSessions,
                 activeSessionsMutex, serviceAccounts, clusterRoleBindings,
                 kubeConfigFile, sweepNow, sweepTodo, calls, faults, activated,
                 crashed, shellRc, shellRcBefore>>

\* the command-line program: its one thread runs activate, deactivate and
\* status one after the other, with sessions of any length, while the clock
\* advances
NextCli ==
  \/ \E d \in TickSteps : Tick(d)
  \/ Cli(Foreground, SessionFlags \cup LongSessions)
  \/ \E w \in Foreground : StatusCmd(w)
  \/ Create(Foreground)
  \/ Token(Foreground)
  \/ Cleanup(Foreground)

SpecCli == Init /\ [][NextCli]_vars

\* --------------------------------------------------- a registered session

\* the process after CreateTemporaryAccess(10 minutes) as alice at time 0 and
\* RegisterSession of the config it returned
InitRegistered ==
  /\ now = 0
  /\ ticks = 0
  /\ configs = << [Name |-> SAName("alice"), Namespace |-> KubeSystem,
                   User |-> "alice", ExpiresAt |-> 600] >>
  /\ handles = {1}
  /\ activeSessions = MapPut(<<>>, SAName("alice"), 1)
  /\ activeSessionsMutex = None
  /\ serviceAccounts = {SAName("alice")}
  /\ clusterRoleBindings = {CRBName(SAName("alice"))}
  /\ kubeConfigFile = EmptyFile
  /\ th = [t \in Threads |-> IF t = Sweeper
                               THEN [IdleFrame EXCEPT !.pc = "sleep", !.op = "sweep"]
                               ELSE IdleFrame]
  /\ sweepNow = 0
  /\ sweepTodo = {}
  /\ calls = 0
  /\ faults = 0
  /\ activated = {}
  /\ crashed = FALSE
  /\ shellRc = NoRc
  /\ shellRcBefore = NoRc

\* the session API called by one thread of a process that holds a session
SpecRegistered == InitRegistered /\ [][Background \/ Api(Foreground)]_vars

\* ---------------------------------------------------------------- ShellCmd

\* A text is the sequence of its lines, strings.Split(text, "\n"); a line is
\* its leading white space (indent) and the pieces of what follows it, so
\* that strings.TrimSpace and strings.Contains can be computed.
Line(indent, text) == [indent |-> indent, text |-> text]
Blank == Line(0, <<>>)
Newline == <<Blank, Blank>>

shellIntegrationMarker == "# Kubconfig shell integration"

\* the lines of the script, the double quotes of the shell left out
shellIntegrationScript ==
  << Blank,
     Line(0, <<"kubconfig() {">>),
     Line(1, <<"if [ $1 = activate ]; then">>),
     Line(2, <<"eval $(command kubconfig activate $2 --session $3 --shell-eval)">>),
     Line(1, <<"elif [ $1 = deactivate ]; then">>),
     Line(2, <<"eval $(command kubconfig deactivate --shell-eval)">>),
     Line(1, <<"else">>),
     Line(2, <<"command kubconfig $@">>),
     Line(1, <<"fi">>),
     Line(0, <<"}">>),
     Blank >>

\* the concatenation of two texts: the last line of the first goes on in the
\* first line of the second
Concat(a, b) ==
  LET last == a[Len(a)]
      first == b[1]
      joined == IF first = Blank THEN last
                ELSE IF last.text = <<>> THEN Line(last.indent + first.indent, first.text)
                ELSE Line(last.indent, last.text \o first.text)
  IN  SubSeq(a, 1, Len(a) - 1) \o <<joined>> \o Tail(b)

\* fmt.Sprintf("\n%s\n%s\n", shellIntegrationMarker, shellIntegrationScript)
IntegrationBlock ==
  Concat(Concat(Concat(Concat(Newline, <<Line(0, <<shellIntegrationMarker>>)>>),
                       Newline),
                shellIntegrationScript),
         Newline)

\* strings.TrimSpace(line), as the pieces of the line
TrimSpace(line) == line.text

\* strings.Contains(content, piece)
Contains(content, piece) ==
  \E i \in DOMAIN content : \E j \in DOMAIN content[i].text : content[i].text[j] = piece

\* isIntegrationInstalled
IsIntegrationInstalled(content) == Contains(content, shellIntegrationMarker)

\* installShellIntegration: the content of the rc file after it
InstallShellIntegration(content) ==
  IF IsIntegrationInstalled(content) THEN content ELSE Concat(content, IntegrationBlock)

\* the loop of removeShellIntegration over the lines: newLines
RECURSIVE RemoveBlock(_, _)
RemoveBlock(lines, removing) ==
  IF lines = <<>> THEN <<>>
  ELSE LET line == Head(lines)
       IN  IF TrimSpace(line) = <<shellIntegrationMarker>>
             THEN RemoveBlock(Tail(lines), TRUE)
           ELSE IF removing /\ TrimSpace(line) = <<>>
             THEN RemoveBlock(Tail(lines), FALSE)
           ELSE IF ~removing
             THEN <<line>> \o RemoveBlock(Tail(lines), FALSE)
           ELSE RemoveBlock(Tail(lines), TRUE)

\* strings.Join(newLines, "\n"), split again: no lines make the empty text
Join(newLines) == IF newLines = <<>> THEN NoRc ELSE newLines

\* removeShellIntegration: the content of the rc file after it
RemoveShellIntegration(content) ==
  IF ~IsIntegrationInstalled(content) THEN content
  ELSE Join(RemoveBlock(content, FALSE))

\* the lines of the rc files the commands are run on, and how many a file has
MaxLines == 3
RcLines == {Blank, Line(1, <<>>), Line(0, <<"export PATH=$PATH:~/bin">>),
            Line(1, <<"alias k=kubectl">>)}
RcFiles == UNION {[1..n -> RcLines] : n \in 1..MaxLines}

\* the user has an rc file without the integration
InitShell ==
  /\ now = 0
  /\ ticks = 0
  /\ configs = <<>>
  /\ handles = {}
  /\ activeSessions = <<>>
  /\ activeSessionsMutex = None
  /\ serviceAccounts = {}
  /\ clusterRoleBindings = {}
  /\ kubeConfigFile = EmptyFile
  /\ th = [t \in Threads |-> IF t = Sweeper
                               THEN [IdleFrame EXCEPT !.pc = "sleep", !.op = "sweep"]
                               ELSE IdleFrame]
  /\ sweepNow = 0
  /\ sweepTodo = {}
  /\ calls = 0
  /\ faults = 0
  /\ activated = {}
  /\ crashed = FALSE
  /\ shellRc \in RcFiles
  /\ shellRcBefore = shellRc

\* kubconfig shell install, for one rc file: the block is appended unless
\* the file has the marker; opening or writing the file may fail
ShellInstall(w) ==
  /\ ~crashed
  /\ th[w].pc = "idle"
  /\ calls < MaxCalls
  /\ calls' = calls + 1
  /\ \E ok \in BOOLEAN :
       LET changes == ~IsIntegrationInstalled(shellRc)
       IN  /\ ok \/ changes
           /\ Fault(Failed(ok))
           /\ shellRc' = IF ok THEN InstallShellIntegration(shellRc) ELSE shellRc
           /\ shellRcBefore' = IF ok /\ changes THEN shellRc ELSE shellRcBefore
           /\ th' = [th EXCEPT ![w] =
                [IdleFrame EXCEPT !.op = "install",
                                  !.err = IF ok THEN NilErr ELSE <<"Error installing">>]]
  /\ UNCHANGED <<now, ticks, configs, handles, activeSessions,
                 activeSessionsMutex, serviceAccounts, clusterRoleBindings,
                 kubeConfigFile, sweepNow, sweepTodo, activated, crashed>>

\* kubconfig shell uninstall, for one rc file: the file is rewritten without
\* the block when it has the marker; reading or writing it may fail
ShellUninstall(w) ==
  /\ ~crashed
  /\ th[w].pc = "idle"
  /\ calls < MaxCalls
  /\ calls' = calls + 1
  /\ \E ok \in BOOLEAN :
       /\ ok \/ IsIntegrationInstalled(shellRc)
       /\ Fault(Failed(ok))
       /\ shellRc' = IF ok THEN RemoveShellIntegration(shellRc) ELSE shellRc
       /\ th' = [th EXCEPT ![w] =
            [IdleFrame EXCEPT !.op = "uninstall",
                              !.err = IF ok THEN NilErr ELSE <<"Error removing">>]]
  /\ UNCHANGED <<now, ticks, configs, handles, activeSessions,
                 activeSessionsMutex, serviceAccounts, clusterRoleBindings,
                 kubeConfigFile, sweepNow, sweepTodo, activated, crashed,
                 shellRcBefore>>

NextShell ==
  \/ \E w \in Foreground : ShellInstall(w)
  \/ \E w \in Foreground : ShellUninstall(w)

SpecShell == InitShell /\ [][NextShell]_vars

\* ------------------------------------------ the functions on a kubeconfig

\* the expiry a document may carry in its exec arguments (seconds)
ExecExpiries == {ZeroTime, 300}

\* the documents the functions are called with: every shape of contexts[0]
\* and of users[0], a context name of one, two or three parts, with and
\* without a certificate and an expiry
Docs ==
  [contexts : {"absent", "scalar", "string", "general", "noname"},
   name : { << <<"admin">> >>, << <<"admin">>, <<"prod">> >>,
            << <<"admin">>, <<"prod">>, <<"eu">> >> },
   users : {"absent", "scalar", "general", "nouser", "ok"},
   token : {Opaque(<<"admin">>)},
   cert : {"absent", "present"},
   expiry : ExecExpiries,
   clusters : {"prod"}]

\* a caller holds a document and a fresh token for alice's account
InitDoc ==
  /\ now = 0
  /\ ticks = 0
  /\ configs = <<>>
  /\ handles = {}
  /\ activeSessions = <<>>
  /\ activeSessionsMutex = None
  /\ serviceAccounts = {}
  /\ clusterRoleBindings = {}
  /\ kubeConfigFile = EmptyFile
  /\ \E doc \in Docs :
       th = [t \in Threads |->
               IF t = Sweeper THEN [IdleFrame EXCEPT !.pc = "sleep", !.op = "sweep"]
               ELSE IF t \in Foreground
                 THEN [IdleFrame EXCEPT !.pc = "doc_call", !.op = "document",
                                        !.doc = doc,
                                        !.token = Jwt(SAName("alice"), MinSession)]
               ELSE IdleFrame]
  /\ sweepNow = 0
  /\ sweepTodo = {}
  /\ calls = 0
  /\ faults = 0
  /\ activated = {}
  /\ crashed = FALSE
  /\ shellRc = NoRc
  /\ shellRcBefore = NoRc

\* ModifyKubeconfigWithToken(originalConfig, token) is called and what it
\* returns is written to config.KubeConfigFile, as ActivateCmd does; a panic
\* ends the process
ModifyCall(t) ==
  /\ ~crashed
  /\ th[t].pc = "doc_call"
  /\ LET modified == ModifyKubeconfigWithToken(th[t].doc, th[t].token)
     IN  /\ crashed' = (modified.out = "panic")
         /\ kubeConfigFile' = IF modified.out = "doc" THEN modified.doc ELSE kubeConfigFile
         /\ th' = [th EXCEPT ![t].pc = "mod_ret", ![t].err = modified.err]
  /\ UNCHANGED <<now, ticks, configs, handles, activeSessions,
                 activeSessionsMutex, serviceAccounts, clusterRoleBindings,
                 sweepNow, sweepTodo, calls, faults, activated,
                 shellRc, shellRcBefore>>

\* GetServiceAccountFromConfig is called on the document; a panic ends the
\* process
GetCall(t) ==
  /\ ~crashed
  /\ th[t].pc = "doc_call"
  /\ LET sa == GetServiceAccountFromConfig(th[t].doc)
     IN  /\ crashed' = (sa.out = "panic")
         /\ th' = [th EXCEPT ![t].pc = "get_ret", ![t].err = sa.err,
                             ![t].local = sa.config]
  /\ UNCHANGED <<now, ticks, configs, handles, activeSessions,
                 activeSessionsMutex, serviceAccounts, clusterRoleBindings,
                 kubeConfigFile, sweepNow, sweepTodo, calls, faults, activated,
                 shellRc, shellRcBefore>>

NextDoc ==
  \/ \E t \in Foreground : ModifyCall(t)
  \/ \E t \in Foreground : GetCall(t)

SpecDoc == InitDoc /\ [][NextDoc]_vars

\* ---------------------------------------------------------- verifyTokenExpiry

\* the largest exp claim and the expected expiries that are tried (seconds)
MaxExp == 200
ExpectedExpiries == {100, 130}

\* the tokens verifyTokenExpiry is called with: well-formed ones with every
\* exp up to MaxExp, and ones with another number of segments or another
\* payload
Tokens ==
  [sub : {SAName("alice")}, exp : 0..MaxExp, parts : {3}, payload : {"claims"}]
  \cup [sub : {SAName("alice")}, exp : ExpectedExpiries, parts : {1, 2, 4},
        payload : {"claims"}]
  \cup [sub : {SAName("alice")}, exp : {ZeroTime}, parts : {3},
        payload : {"undecodable", "unparsable", "noexp"}]

\* a caller is about to call verifyTokenExpiry(token, expectedExpiry)
InitVerify ==
  /\ now = 0
  /\ ticks = 0
  /\ configs = <<>>
  /\ handles = {}
  /\ activeSessions = <<>>
  /\ activeSessionsMutex = None
  /\ serviceAccounts = {}
  /\ clusterRoleBindings = {}
  /\ kubeConfigFile = EmptyFile
  /\ \E token \in Tokens, expectedExpiry \in ExpectedExpiries :
       th = [t \in Threads |->
               IF t = Sweeper THEN [IdleFrame EXCEPT !.pc = "sleep", !.op = "sweep"]
               ELSE IF t \in Foreground
                 THEN [IdleFrame EXCEPT !.pc = "vt_call", !.op = "verify",
                                        !.token = token,
                                        !.local = [NoConfig EXCEPT !.ExpiresAt = expectedExpiry]]
               ELSE IdleFrame]
  /\ sweepNow = 0
  /\ sweepTodo = {}
  /\ calls = 0
  /\ faults = 0
  /\ activated = {}
  /\ crashed = FALSE
  /\ shellRc = NoRc
  /\ shellRcBefore = NoRc

\* the call of verifyTokenExpiry: its error is left in the frame
VerifyCall(t) ==
  /\ th[t].pc = "vt_call"
  /\ th' = [th EXCEPT ![t].pc = "vt_ret",
                      ![t].err = VerifyTokenExpiry(th[t].token, th[t].local.ExpiresAt)]
  /\ UNCHANGED <<now, ticks, configs, handles, activeSessions,
                 activeSessionsMutex, serviceAccounts, clusterRoleBindings,
                 kubeConfigFile, sweepNow, sweepTodo, calls, faults, activated,
                 crashed, shellRc, shellRcBefore>>

NextVerify == \E t \in Foreground : VerifyCall(t)

SpecVerify == InitVerify /\ [][NextVerify]_vars

\* ------------------------------------------------------------------- claims

Range(f) == {f[i] : i \in DOMAIN f}

\* the threads whose CleanupTemporaryAccess passed its check and is about to
\* run a kubectl delete
Deleting == {t \in Threads : th[t].pc = "cta_del"}

\* the threads whose CleanupTemporaryAccess is about to return
Returning == {t \in Threads : th[t].pc = "cta_ret"}

\* the registry keys whose session belongs to this user
EntriesOf(user) ==
  {id \in DOMAIN activeSessions : configs[activeSessions[id]].User = user}

\* the control plane holds the binding of this account and not the account
Dangling(name) ==
  CRBName(name) \in clusterRoleBindings /\ name \notin serviceAccounts

\* cleanupExpiredSessions ends in this step
SweepEnds == th[Sweeper].pc = "scan" /\ th'[Sweeper].pc = "sleep"

\* C1: once the ExpiresAt of a successfully activated session has passed and
\* no kubectl invocation has failed, a run of the cleanup routine that began
\* after the expiry leaves neither the session's
\* service account nor its cluster role binding on the control plane (unless
\* a younger config of the same account exists); nobody has to deactivate.
C1_ExpiredActivationReclaimed ==
  [][SweepEnds =>
       \A a \in activated :
         ( /\ a.at < configs[a.cfg].ExpiresAt
           /\ After(sweepNow, configs[a.cfg].ExpiresAt)
           /\ faults = 0
           /\ \A q \in DOMAIN configs :
                configs[q].Name = configs[a.cfg].Name
                  => After(sweepNow, configs[q].ExpiresAt) )
         => /\ configs[a.cfg].Name \notin serviceAccounts'
            /\ CRBName(configs[a.cfg].Name) \notin clusterRoleBindings']_vars

\* C2: when a run of cleanupExpiredSessions that read the clock at sweepNow
\* ends, every entry left in activeSessions has ExpiresAt > sweepNow.
C2_TickRemovesExpired ==
  [][SweepEnds =>
       \A id \in DOMAIN activeSessions' :
         configs'[activeSessions'[id]].ExpiresAt > sweepNow]_vars

\* C3: a thread is about to run a kubectl delete of CleanupTemporaryAccess
\* only in states where activeSessions holds no entry for the account being
\* deleted with now < ExpiresAt.
C3_DeleteOnlyWithoutActiveEntry ==
  \A t \in Deleting :
    \A id \in DOMAIN activeSessions :
      configs[activeSessions[id]].Name = Cfg(t).Name
        => ~(now < configs[activeSessions[id]].ExpiresAt)

\* some session other than the one thread t is revoking is registered for
\* the same user with now < ExpiresAt
OtherActive(t) ==
  \E id \in EntriesOf(Cfg(t).User) :
    /\ activeSessions[id] # th[t].cfg
    /\ now < configs[activeSessions[id]].ExpiresAt

\* C4: CleanupTemporaryAccess is about to delete only while no other active
\* session of the user is registered, and when it returns with no other
\* active session of the user registered it has run both deletes.
C4_NoOpExactlyWhileAnotherIsActive ==
  /\ \A t \in Deleting : ~OtherActive(t)
  /\ \A t \in Returning : ~OtherActive(t) => Len(th[t].log) = 2

\* C5: no RegisterSession registers a session with now < ExpiresAt while
\* another thread's CleanupTemporaryAccess for the same user has passed its
\* check and not yet run its deletes.
C5_CheckAndDeleteAtomic ==
  [][\A w \in Workers :
       ( /\ th[w].pc = "reg_lock"
         /\ th'[w].pc = "idle"
         /\ now < configs[th[w].cfg].ExpiresAt )
       => \A t \in Deleting \ {w} : Cfg(t).User # configs[th[w].cfg].User]_vars

\* C6: when CleanupTemporaryAccess(config) returns and config is the only
\* registry entry of its user, with now < ExpiresAt, it has run the delete of
\* the binding and the delete of the account.
C6_SoleActiveSessionDeleted ==
  \A t \in Returning :
    ( /\ th[t].cfg # Nil
      /\ EntriesOf(Cfg(t).User) = {Cfg(t).Name}
      /\ activeSessions[Cfg(t).Name] = th[t].cfg
      /\ now < Cfg(t).ExpiresAt )
    => {e.kind : e \in Range(th[t].log)} = {"clusterrolebinding", "serviceaccount"}

\* C7: in every call of CleanupTemporaryAccess, a delete of the service
\* account is run only after a delete of the cluster role binding, and no
\* delete of the binding follows it.
C7_BindingBeforeIdentity ==
  \A t \in Threads :
    LET log == th[t].log
    IN  \A i \in DOMAIN log :
          log[i].kind = "serviceaccount"
            => /\ \E j \in 1..(i - 1) : log[j].kind = "clusterrolebinding"
               /\ \A j \in i..Len(log) : log[j].kind # "clusterrolebinding"

\* C7's case: a call has run both deletes
C7_Witness ==
  \E t \in Returning :
    /\ Len(th[t].log) = 2
    /\ th[t].log[1].kind = "clusterrolebinding"
    /\ th[t].log[2].kind = "serviceaccount"

\* C8 as stated: when CleanupTemporaryAccess returns after its deletes,
\* whatever their outcomes, the control plane does not hold the binding
\* without the account.
C8_NeverDangling ==
  \A t \in Returning : th[t].guard = "clear" => ~Dangling(Cfg(t).Name)

\* C8, amended: when CleanupTemporaryAccess returns after its deletes, no
\* other handler having run meanwhile, and its delete of the binding did not
\* fail, the control plane does not hold the binding without the account.
C8_NotDanglingWhenBindingDeleted ==
  \A t \in Returning :
    ( /\ th[t].guard = "clear"
      /\ \A e \in Range(th[t].log) : e.kind = "clusterrolebinding" => e.ok )
    => ~Dangling(Cfg(t).Name)

\* C8's case: both deletes succeeded on resources that were there
C8_Witness ==
  \E t \in Returning :
    /\ th[t].guard = "clear"
    /\ th[t].log = << [kind |-> "clusterrolebinding", ok |-> TRUE],
                      [kind |-> "serviceaccount", ok |-> TRUE] >>
    /\ Cfg(t).Name \notin serviceAccounts
    /\ CRBName(Cfg(t).Name) \notin clusterRoleBindings

SecondCreate ==
  {t \in Workers : /\ th[t].pc = "cr_ret"
                   /\ th[t].op = "api_create"
                   /\ th[t].prev.ok
                   /\ th[t].prev.user = th[t].user
                   /\ th[t].present}

Polling == {"cr_wait", "tk_wait"}

\* thread t takes a step
Steps(t) == th'[t] # th[t]

\* C11: waitForServiceAccount issues at most 10 queries; the first query that
\* sees the account ends it with success; it gives up with the timeout error
\* exactly when the tenth query in a row saw nothing, and every other miss
\* takes it one query nearer to that; the timeout error is not the error of
\* the access check.
C11_PollBounded ==
  [][\A t \in Workers :
       (th[t].pc \in Polling /\ Steps(t)) =>
         LET observed == faults' = faults /\ Cfg(t).Name \in serviceAccounts
             gaveUp == th'[t].err = NotReady
         IN  /\ th[t].i < 10
             /\ observed => /\ th'[t].err = NilErr
                            /\ th'[t].pc \in {"cr_ret", "tk_clamp"}
             /\ gaveUp <=> (~observed /\ th[t].i = 9)
             /\ gaveUp => /\ th'[t].pc \in {"cr_ret", "tk_ret"}
                          /\ th'[t].i = 10
                          /\ th'[t].err # AccessCheckFailed
             /\ (~observed /\ th[t].i < 9) => /\ th'[t].pc = th[t].pc
                                              /\ th'[t].i = th[t].i + 1]_vars

\* a wait gave up after its tenth query
C11_Witness ==
  \E t \in Workers : /\ th[t].pc \in {"cr_ret", "tk_ret"}
                     /\ th[t].err = NotReady
                     /\ th[t].i = 10

\* C12: when verifyClusterAccess fails, CreateTemporaryAccess goes from the
\* probe straight to its return with the access error; it applied nothing and
\* built no config, the control plane is as it was, and its caller gets no
\* config, asks for no token and ends.
C12_ProbeFailureStops ==
  [][\A t \in Workers :
       /\ (th'[t].err = AccessCheckFailed /\ th[t].err # AccessCheckFailed) =>
            /\ th[t].pc = "cr_probe"
            /\ th'[t].pc = "cr_ret"
            /\ th'[t].applied = 0
            /\ th'[t].local = NoConfig
            /\ UNCHANGED <<serviceAccounts, clusterRoleBindings, configs, handles>>
       /\ (th[t].err = AccessCheckFailed /\ Steps(t)) =>
            /\ th[t].pc = "cr_ret"
            /\ th'[t].pc = "idle"
            /\ th'[t].token = NoToken
            /\ UNCHANGED <<serviceAccounts, clusterRoleBindings, configs, handles,
                           activeSessions, kubeConfigFile, activated>>]_vars

\* an activation whose access check failed is about to return
C12_Witness ==
  \E t \in Workers : /\ th[t].pc = "cr_ret"
                     /\ th[t].op = "activate"
                     /\ th[t].err = AccessCheckFailed

\* thread t is about to run kubectl create token with --duration th[t].dur
Issuing(t) == th[t].pc = "tk_issue"

\* C13 as stated: every token request has a duration between 600 and 86400
\* seconds, a session flag below ten minutes is issued with 600 seconds, and
\* a session flag above 24 hours is not refused but issued with 86400 seconds.
C13_TtlClamped ==
  \A t \in Workers :
    /\ Issuing(t) => /\ th[t].dur >= 600 /\ th[t].dur <= 86400
                     /\ th[t].req < 600 => th[t].dur = 600
                     /\ th[t].req > 86400 => th[t].dur = 86400
    /\ th[t].req > 86400 => th[t].err # SessionTooLong

\* C13, amended: every token request of an activation has a duration between
\* 600 and 86400 seconds and a session flag below ten minutes is issued with
\* 600 seconds; a session flag above 24 hours is refused, and the command
\* ends without a token request.
C13_TtlWithinLimitsOrRefused ==
  \A t \in Workers :
    /\ Issuing(t) => /\ th[t].dur >= 600 /\ th[t].dur <= 86400
                     /\ th[t].req < 600 => th[t].dur = 600
                     /\ th[t].req <= 86400
    /\ th[t].req > 86400 => /\ th[t].pc = "idle"
                            /\ th[t].err = SessionTooLong
                            /\ th[t].token = NoToken

\* after an activation that got its token, one with a flag above 24 hours
\* was refused
C13_Witness ==
  \E t \in Workers : /\ th[t].req > 86400
                     /\ th[t].err = SessionTooLong
                     /\ activated # {}

\* the config GetTemporaryToken was called with, before and after the step
Session(t) == configs[th[t].cfg]
SessionAfter(t) == configs'[th[t].cfg]

\* C14: when less than ten minutes are left of the session as the duration
\* is computed, GetTemporaryToken asks for 600 seconds and sets
\* config.ExpiresAt to ten minutes from now; verifyTokenExpiry then accepts
\* the token exactly when its exp is within a minute of that raised value,
\* and the config the caller holds keeps the raised value to the return.
C14_FloorRaisesExpiry ==
  [][\A t \in Workers :
       /\ (th[t].pc = "tk_clamp" /\ Steps(t) /\ Session(t).ExpiresAt - now < 600) =>
            /\ th'[t].pc = "tk_issue"
            /\ th'[t].dur = 600
            /\ th'[t].raised
            /\ SessionAfter(t).ExpiresAt = now + 600
       /\ (Issuing(t) /\ Steps(t) /\ th[t].raised) =>
            /\ (faults' = faults /\ Session(t).Name \in serviceAccounts) =>
                 (th'[t].err = NilErr <=>
                    Abs((now + th[t].dur) - Session(t).ExpiresAt) <= 60)
            /\ th'[t].cfg = th[t].cfg
            /\ SessionAfter(t) = Session(t)
       /\ (th[t].pc = "tk_ret" /\ Steps(t) /\ th[t].raised) =>
            /\ SessionAfter(t) = Session(t)
            /\ activated' # activated => th[t].cfg \in {a.cfg : a \in activated'}]_vars

\* a session of fifteen minutes with less than ten left was raised, its
\* token passed the check against the raised value, and the call returns
C14_Witness ==
  \E t \in Workers : /\ th[t].pc = "tk_ret"
                     /\ th[t].raised
                     /\ th[t].req = 900
                     /\ th[t].err = NilErr
                     /\ th[t].token.exp = Session(t).ExpiresAt

\* a config without its ExpiresAt
Created(config) == [config EXCEPT !.ExpiresAt = ZeroTime]

\* C15: no step lowers the ExpiresAt of a config; a step that changes it is
\* the clamp of GetTemporaryToken, which sets it to ten minutes from now, a
\* later value than it held; every other field stays as created.
C15_ExpiryNeverDecreases ==
  [][\A p \in DOMAIN configs :
       /\ configs'[p].ExpiresAt >= configs[p].ExpiresAt
       /\ Created(configs'[p]) = Created(configs[p])
       /\ configs'[p].ExpiresAt # configs[p].ExpiresAt =>
            \E t \in Workers : /\ th[t].pc = "tk_clamp"
                               /\ th[t].cfg = p
                               /\ th'[t].raised
                               /\ configs'[p].ExpiresAt = now + 600
                               /\ configs'[p].ExpiresAt > configs[p].ExpiresAt]_vars

\* a session of fifteen minutes that had less than ten left has been raised
\* and its token is about to be asked for
C15_Witness ==
  \E t \in Workers : /\ Issuing(t)
                     /\ th[t].raised
                     /\ th[t].req = 900
                     /\ Session(t).ExpiresAt = now + 600

\* C16: every RegisterSession stores a config whose ExpiresAt is later than
\* the time at which it is stored.
C16_RegisteredBeforeExpiry ==
  [][\A w \in Workers :
       (th[w].pc = "reg_lock" /\ Steps(w)) =>
         /\ activeSessions'[Session(w).Name] = th[w].cfg
         /\ Session(w).ExpiresAt > now]_vars

\* C17: when an activation succeeds, the registry holds an entry for its
\* config under the account's name.
C17_ActivationRegisters ==
  [][\A a \in activated' \ activated :
       LET id == configs[a.cfg].Name
       IN  /\ id \in DOMAIN activeSessions'
           /\ activeSessions'[id] = a.cfg]_vars

\* the account the token in the current kubeconfig was issued for
CurrentAccount == kubeConfigFile.token.sub

\* thread w begins a deactivate
DeactivateBegins(w) ==
  /\ th[w].pc = "idle"
  /\ calls' # calls
  /\ crashed' # crashed \/ kubeConfigFile' # kubeConfigFile \/ th'[w].op = "deactivate"

\* C18: a deactivate that finds the token of an activation in the kubeconfig
\* does not panic and, unless a write fails, calls CleanupTemporaryAccess for
\* the account of that token; when that call returns without errors, the
\* account and its binding are gone and the registry has no entry under the
\* account's name.
C18_DeactivationRevokes ==
  [][\A w \in Workers :
       /\ (DeactivateBegins(w) /\ CurrentAccount # <<>>) =>
            /\ ~crashed'
            /\ faults' = faults => /\ th'[w].pc = "cta_rlock"
                                   /\ th'[w].local.Name = CurrentAccount
       /\ (th[w].op = "deactivate" /\ th[w].pc = "cta_ret" /\ Steps(w)
             /\ th[w].errs = <<>>) =>
            LET id == th[w].local.Name
            IN  /\ id \notin serviceAccounts'
                /\ CRBName(id) \notin clusterRoleBindings'
                /\ id \notin DOMAIN activeSessions']_vars

\* the calls of verifyTokenExpiry that have returned
Verified == {t \in Workers : th[t].pc = "vt_ret"}

\* the token has three segments and a payload with an integer exp
WellFormed(token) == token.parts = 3 /\ token.payload = "claims"

\* C19: a well-formed token is accepted exactly when its exp and the expected
\* expiry are at most 60 seconds apart, on either side.
C19_AcceptsWithinTolerance ==
  \A t \in Verified :
    WellFormed(th[t].token) =>
      LET diff == th[t].token.exp - th[t].local.ExpiresAt
      IN  /\ th[t].err = NilErr <=> (diff >= 0 - 60 /\ diff <= 60)
          /\ th[t].err # NilErr =>
               th[t].err = ExpiryMismatch(th[t].local.ExpiresAt, th[t].token.exp)

\* a token whose exp is exactly 60 seconds before the expected expiry has
\* been accepted
C19_Witness ==
  \E t \in Verified : /\ WellFormed(th[t].token)
                      /\ th[t].token.exp = th[t].local.ExpiresAt - 60
                      /\ th[t].err = NilErr

\* the errors of verifyTokenExpiry that say the token could not be read
Malformed ==
  { <<"invalid token format">>, <<"error decoding token">>,
    <<"error parsing token claims">> }

\* C20: a token that has not three segments, or whose payload is no JSON
\* object with an integer exp, is rejected with one of the errors that say it
\* could not be read, never with the expiry mismatch and never accepted.
C20_MalformedRejectedAsMalformed ==
  \A t \in Verified :
    ~WellFormed(th[t].token) => th[t].err \in Malformed

\* ------------------------------------------------------------ C21 .. C30

\* C21: GetTemporaryToken returns the token kubectl issued only when its exp
\* is within 60 seconds of config.ExpiresAt; for a larger difference it
\* returns no token and the verification error, which names the expected and
\* the actual expiry.
C21_TokenOnlyWithinTolerance ==
  [][\A t \in Workers :
       (Issuing(t) /\ Steps(t) /\ faults' = faults
          /\ Session(t).Name \in serviceAccounts) =>
         LET exp == now + th[t].dur
             diff == exp - Session(t).ExpiresAt
         IN  IF diff >= 0 - 60 /\ diff <= 60
               THEN /\ th'[t].err = NilErr
                    /\ th'[t].token = Jwt(Session(t).Name, exp)
               ELSE /\ th'[t].token = NoToken
                    /\ th'[t].err = <<"token verification failed">>
                                    \o ExpiryMismatch(Session(t).ExpiresAt, exp)]_vars

\* a token whose exp is ten minutes from config.ExpiresAt was refused, and
\* the call returns without a token
C21_Witness ==
  \E t \in Workers : /\ th[t].pc = "tk_ret"
                     /\ Len(th[t].err) > 1
                     /\ th[t].err[2] = "token expiry mismatch"
                     /\ th[t].token = NoToken

\* the positions from which a thread's next statement runs kubectl, or
\* enters CleanupTemporaryAccess, which does
ControlPlaneCall ==
  {"cr_probe", "cr_exists", "cr_apply", "cr_wait", "tk_wait", "tk_issue",
   "cta_rlock", "cta_del"}

\* C22: no thread is about to call the control plane, or is inside
\* CleanupTemporaryAccess, while it holds activeSessionsMutex; the cleanup
\* routine in particular has released it before it calls
\* CleanupTemporaryAccess.
C22_NoControlPlaneCallUnderLock ==
  \A t \in Threads :
    th[t].pc \in ControlPlaneCall => activeSessionsMutex # t

\* C30: a cleanup tick that has begun can take its next step: it is never
\* left waiting for the lock it holds itself, and a RegisterSession that
\* waits for the lock waits for a holder that can go on.
C30_TickRunsToCompletion ==
  /\ th[Sweeper].pc # "sleep" =>
       \/ ENABLED SweepScan
       \/ ENABLED SweepUnlock
       \/ ENABLED CleanupCheck(Sweeper)
       \/ ENABLED CleanupDelete(Sweeper)
       \/ ENABLED CleanupReturn(Sweeper)
  /\ \A w \in Workers :
       th[w].pc = "reg_lock" =>
         \/ ENABLED RegisterSession(w)
         \/ ENABLED SweepScan
         \/ ENABLED SweepUnlock
         \/ ENABLED CleanupCheck(Sweeper)

\* the calls of ModifyKubeconfigWithToken and of GetServiceAccountFromConfig
\* that are over
Modified == {t \in Workers : th[t].pc = "mod_ret"}
Got == {t \in Workers : th[t].pc = "get_ret"}

\* C23: the document ModifyKubeconfigWithToken returns holds the new token
\* in users[0].user.token and is the input in everything else.
C23_OnlyTokenChanges ==
  \A t \in Modified :
    (~crashed /\ th[t].err = NilErr) =>
      /\ kubeConfigFile.token = th[t].token
      /\ [kubeConfigFile EXCEPT !.token = th[t].doc.token] = th[t].doc

\* a document with a certificate and an exec expiry was rewritten
C23_Witness ==
  \E t \in Modified : /\ ~crashed
                      /\ th[t].err = NilErr
                      /\ kubeConfigFile.token = th[t].token
                      /\ kubeConfigFile.token # th[t].doc.token
                      /\ kubeConfigFile.cert = "present"
                      /\ kubeConfigFile.expiry # ZeroTime

\* C24: a document whose users, users[0].user or contexts[0] is missing or of
\* another shape gives an error value: the process does not crash, the
\* rewrite writes nothing, and the read returns no config.
C24_BadDocumentIsAnError ==
  /\ ~crashed
  /\ \A t \in Modified :
       th[t].doc.users # "ok" => th[t].err # NilErr /\ kubeConfigFile = EmptyFile
  /\ \A t \in Got :
       th[t].doc.contexts \notin {"string", "general"} =>
         th[t].err # NilErr /\ th[t].local = NoConfig

\* the status command has just answered
Reported == {t \in Workers : th[t].pc = "idle" /\ th[t].op = "status"}

\* C25: once an activation has written its token to config.KubeConfigFile,
\* the status command reports the time that remains or that the token has
\* expired, not an error for lack of an expiry.
C25_StatusAfterActivation ==
  \A t \in Reported :
    (activated # {} /\ kubeConfigFile # EmptyFile) =>
      /\ th[t].err = NilErr
      /\ th[t].log[1] \in {"Token is valid", "Token has expired"}

\* the principals that have an entry in the registry under the key id
Principal(id) == configs[activeSessions[id]].User

\* the registry is keyed by the name made of the principal
KeyedByPrincipal ==
  \A id \in DOMAIN activeSessions :
    /\ id = SAName(Principal(id))
    /\ configs[activeSessions[id]].Name = id
    /\ configs[activeSessions[id]].Namespace = KubeSystem
    /\ \A other \in DOMAIN activeSessions : Principal(other) = Principal(id) => other = id

\* the step of thread w is RegisterSession
Registers(w) == th[w].pc = "reg_lock" /\ th'[w].pc = "idle"

\* C26: the name of a session is its principal followed by "-user" in
\* kube-system, the registry holds at most one entry per principal, and
\* RegisterSession puts its config in the place of the entry the principal
\* had, adding an entry only for a principal that had none.
C26_OneEntryPerPrincipal ==
  /\ []KeyedByPrincipal
  /\ [][\A w \in Workers : Registers(w) =>
          LET id == SAName(configs[th[w].cfg].User)
          IN  /\ DOMAIN activeSessions' = DOMAIN activeSessions \cup {id}
              /\ activeSessions'[id] = th[w].cfg
              /\ \A other \in DOMAIN activeSessions \ {id} :
                   activeSessions'[other] = activeSessions[other]]_vars

\* a second config of alice took the place of her first one
C26_Witness ==
  /\ DOMAIN activeSessions = {SAName("alice")}
  /\ activeSessions[SAName("alice")] = 2
  /\ configs[1].User = "alice"
  /\ configs[2].User = "alice"

\* C27: the check of CleanupTemporaryAccess for an active session of the
\* user finds none in any call, so that no call returns without its deletes
\* because of it.
C27_CheckAlwaysFalse ==
  \A t \in Threads : th[t].guard # "active"

\* thread t is about to assign config.ExpiresAt in GetTemporaryToken
RaisesExpiry(t) ==
  /\ th[t].pc = "tk_clamp"
  /\ Clamp(configs[th[t].cfg].ExpiresAt, now).raised

\* thread r is about to read the ExpiresAt of the registered config p: the
\* sweep in its range over activeSessions, CleanupTemporaryAccess in its loop
ReadsExpiry(r, p) ==
  \/ /\ r = Sweeper
     /\ th[r].pc = "scan"
     /\ \E id \in sweepTodo : id \in DOMAIN activeSessions /\ activeSessions[id] = p
  \/ /\ th[r].pc = "cta_rlock"
     /\ activeSessionsMutex = None
     /\ \E id \in DOMAIN activeSessions :
          activeSessions[id] = p /\ configs[p].User = Cfg(r).User

\* C28: the ExpiresAt of a registered session is written under the registry
\* lock: GetTemporaryToken is never about to raise it without the lock while
\* the sweep or the loop of CleanupTemporaryAccess is about to read it.
C28_ExpiryAccessUnderLock ==
  \A t \in Workers, r \in Threads :
    (r # t /\ RaisesExpiry(t) /\ ReadsExpiry(r, th[t].cfg)) => activeSessionsMutex = t

\* the step of thread t is the loop of CleanupTemporaryAccess over the
\* registry
Checks(t) == th[t].pc = "cta_rlock" /\ th'[t].pc \in {"cta_ret", "cta_del"}

\* C29: the loop of CleanupTemporaryAccess finds an active session exactly
\* when some entry of the registry has the user of the config and an
\* ExpiresAt after now; an entry whose ExpiresAt is now is not active.
C29_ActiveIffBeforeExpiry ==
  [][\A t \in Threads : Checks(t) =>
       (th'[t].guard = "active" <=>
          \E id \in DOMAIN activeSessions :
            /\ configs[activeSessions[id]].User = Cfg(t).User
            /\ now < configs[activeSessions[id]].ExpiresAt)]_vars

\* ------------------------------------------------------------- C31 .. C38

\* the calls of CreateTemporaryAccess that are about to return (config, nil)
Succeeding == {t \in Workers : th[t].pc = "cr_ret" /\ th[t].err = NilErr}

\* C31: when CreateTemporaryAccess returns a config, the service account and
\* its cluster-admin binding are both on the control plane.
C31_SuccessMeansAccountAndBinding ==
  \A t \in Succeeding :
    /\ Cfg(t).Name \in serviceAccounts
    /\ CRBName(Cfg(t).Name) \in clusterRoleBindings

\* the step of thread t ends the work of CreateTemporaryAccess without error
CreateSucceeds(t) ==
  th[t].pc # "cr_ret" /\ th'[t].pc = "cr_ret" /\ th'[t].err = NilErr

\* the step of thread t is the last attempt of the wait of
\* CreateTemporaryAccess, and it does not see the account
WaitTimesOut(t) ==
  /\ th[t].pc = "cr_wait"
  /\ th'[t].pc = "cr_ret"
  /\ th[t].i + 1 >= maxAttempts
  /\ th'[t].i # 0

\* the step of thread t is the return of CreateTemporaryAccess
CreateReturns(t) == th[t].pc = "cr_ret" /\ th'[t].pc # "cr_ret"

\* C32: CreateTemporaryAccess comes to its successful return only by a
\* kubectl get that found the account, in serviceAccountExists or in
\* waitForServiceAccount; a wait that times out gives the error, and a
\* call that ends with an error returns no config.
C32_ReturnsOnlyObservedAccount ==
  [][\A t \in Workers :
       /\ CreateSucceeds(t) =>
            /\ th[t].pc \in {"cr_exists", "cr_wait"}
            /\ Cfg(t).Name \in serviceAccounts
       /\ WaitTimesOut(t) => th'[t].err = NotReady
       /\ (CreateReturns(t) /\ th[t].err # NilErr) =>
            /\ configs' = configs
            /\ handles' = handles
            /\ th'[t].pc = "idle"]_vars

\* createResources was run and the wait that followed timed out
C32_Witness ==
  \E t \in Workers : /\ th[t].pc = "cr_ret"
                     /\ th[t].applied > 0
                     /\ th[t].err = NotReady

\* the step of thread t is an attempt of the wait of GetTemporaryToken
TokenWaits(t) == th[t].pc = "tk_wait" /\ th'[t] # th[t]

\* the step of thread t is kubectl create token
RequestsToken(t) == th[t].pc = "tk_issue" /\ th'[t].pc = "tk_ret"

\* C33: GetTemporaryToken goes on to the duration and to kubectl create
\* token only from a wait attempt that found the account; a wait that uses
\* up its attempts returns the error with no token, and neither it nor the
\* return that follows changes config.ExpiresAt or asks for a token.
C33_TokenOnlyAfterRecheck ==
  [][\A t \in Workers :
       /\ (th'[t].pc = "tk_clamp" /\ th[t].pc # "tk_clamp") =>
            /\ th[t].pc = "tk_wait"
            /\ Cfg(t).Name \in serviceAccounts
       /\ (th'[t].pc = "tk_issue" /\ th[t].pc # "tk_issue") => th[t].pc = "tk_clamp"
       /\ RequestsToken(t) => th[t].err = NilErr
       /\ (TokenWaits(t) /\ th'[t].pc \notin {"tk_wait", "tk_clamp"}) =>
            /\ th[t].i + 1 >= maxAttempts
            /\ th'[t].pc = "tk_ret"
            /\ th'[t].err = NotReady
            /\ th'[t].token = NoToken
            /\ configs' = configs
       /\ (th[t].pc = "tk_ret" /\ th[t].err = NotReady /\ th'[t] # th[t]) =>
            /\ th'[t].pc = "idle"
            /\ configs' = configs
            /\ kubeConfigFile' = kubeConfigFile]_vars

\* the wait of GetTemporaryToken timed out on a config whose account is gone
C33_Witness ==
  \E t \in Workers : /\ th[t].pc = "tk_ret"
                     /\ th[t].err = NotReady
                     /\ th[t].token = NoToken
                     /\ th[t].cfg # Nil
                     /\ Cfg(t).Name \notin serviceAccounts

\* the deactivations that are about to issue their kubectl deletes
DeactivateDeletes == {t \in Workers : th[t].op = "deactivate" /\ th[t].pc = "cta_del"}

\* C34: after an activation, the service account a deactivation deletes
\* (and with it the binding named after it) is one an activation created.
C34_DeactivateDeletesWhatActivateCreated ==
  \A t \in DeactivateDeletes :
    activated # {} => \E a \in activated : configs[a.cfg].Name = Cfg(t).Name

\* the deactivations that have CleanupTemporaryAccess before them or run it
Revoking == {t \in Workers : th[t].op = "deactivate" /\ th[t].pc \in {"cta_rlock", "cta_del"}}

\* C35: while a deactivation has kubectl deletes to issue, the active
\* kubeconfig has not been emptied.
C35_DeletesBeforeFileIsEmptied ==
  \A t \in Revoking : kubeConfigFile # EmptyFile

\* the entries of the registry that are not expired at the time the current
\* tick read the clock
Unexpired ==
  {id \in DOMAIN activeSessions : sweepNow <= configs[activeSessions[id]].ExpiresAt}

\* the step is one of the cleanup routine
SweeperSteps == th'[Sweeper] # th[Sweeper]

\* C36: a step of cleanupExpiredSessions leaves every entry that is not
\* expired in the registry as it is, hands no such entry to
\* CleanupTemporaryAccess, and issues no kubectl delete for one.
C36_TickLeavesUnexpired ==
  [][SweeperSteps =>
       /\ \A id \in Unexpired :
            /\ id \in DOMAIN activeSessions'
            /\ activeSessions'[id] = activeSessions[id]
       /\ th'[Sweeper].pc \in {"cta_rlock", "cta_del"} =>
            /\ th'[Sweeper].cfg \in Range(activeSessions)
            /\ sweepNow > configs[th'[Sweeper].cfg].ExpiresAt
       /\ th[Sweeper].pc = "cta_del" =>
            /\ serviceAccounts' = serviceAccounts
            /\ clusterRoleBindings' = clusterRoleBindings]_vars

\* the range of a tick is over, the lock still held, and the registry holds
\* the entry the tick found not expired
C36_Witness ==
  /\ th[Sweeper].pc = "scan"
  /\ activeSessionsMutex = Sweeper
  /\ sweepTodo = {}
  /\ Unexpired # {}

\* the step of thread t writes config.KubeConfigFile
WritesKubeConfigFile(t) == th'[t] # th[t] /\ kubeConfigFile' # kubeConfigFile

\* C37: ActivateCmd changes config.KubeConfigFile only in its last step,
\* after GetTemporaryToken returned without error a token whose expiry is
\* within the tolerance of the session's and after the document was
\* rewritten; the file is then that document with the token.
C37_FileWrittenOnlyOnSuccess ==
  [][\A t \in Workers : WritesKubeConfigFile(t) =>
       /\ th[t].op = "activate"
       /\ th[t].pc = "tk_ret"
       /\ th[t].err = NilErr
       /\ th[t].token.parts = 3
       /\ Abs(th[t].token.exp - Cfg(t).ExpiresAt) <= Tolerance
       /\ th[t].doc.users = "ok"
       /\ kubeConfigFile' = [th[t].doc EXCEPT !.token = th[t].token]
       /\ ~crashed']_vars

\* an activation ended in the rewrite of a document without a user map and
\* the file of an earlier activation is still there
C37_Witness ==
  /\ crashed
  /\ activated # {}
  /\ kubeConfigFile \notin {EmptyFile} \cup BrokenDocs
  /\ kubeConfigFile.token.parts = 3

\* the step of thread w is an uninstall that rewrote the rc file the install
\* before it had made
UninstallsAfterInstall(w) ==
  /\ th[w].pc = "idle"
  /\ th'[w].op = "uninstall"
  /\ th'[w].err = NilErr
  /\ calls' = calls + 1
  /\ th[w].op = "install"
  /\ th[w].err = NilErr
  /\ shellRc # shellRcBefore
  /\ shellRc = InstallShellIntegration(shellRcBefore)

\* the lines of a are lines of b, in their order
RECURSIVE IsSubsequence(_, _)
IsSubsequence(a, b) ==
  IF a = <<>> THEN TRUE
  ELSE IF b = <<>> THEN FALSE
  ELSE IF Head(a) = Head(b) THEN IsSubsequence(Tail(a), Tail(b))
  ELSE IsSubsequence(a, Tail(b))

\* C38: an uninstall that follows an install leaves the rc file without the
\* marker and without the kubconfig function, and with every line it had
\* before the install.
C38_UninstallUndoesInstall ==
  [][\A w \in Workers : UninstallsAfterInstall(w) =>
       /\ ~Contains(shellRc', shellIntegrationMarker)
       /\ ~Contains(shellRc', "kubconfig() {")
       /\ IsSubsequence(shellRcBefore, shellRc')]_vars

====
